---- MODULE Spec2Model ----
(***************************************************************************)
(* Model of get_latest_transactions.py: a straight-line script that        *)
(* initialises a Firebase client, asks the realtime database for the last  *)
(* ten children of `transactions` ordered by `timestamp`, re-sorts them    *)
(* newest first and prints one line per record.                            *)
(***************************************************************************)
EXTENDS Integers, Sequences, FiniteSets, TLC

VARIABLES
    pc,                   \* position of the script: start, query, present, done, exited, crashed
    env,                  \* state of GOOGLE_APPLICATION_CREDENTIALS: unset, invalid, valid
    store,                \* remote `transactions` node: key -> record
    app,                  \* the firebase_admin app (client handle)
    requests,             \* queries sent to the database service
    latest_transactions,  \* value returned by .get()
    transaction_list,     \* local list built and sorted by the presenter
    output                \* lines written to standard output

vars == <<pc, env, store, app, requests, latest_transactions, transaction_list, output>>

----------------------------------------------------------------------------
(* Bounds of the model *)

\* largest collection explored (one more than the limit, so that the limit cuts)
MaxRecords == 11
\* collections of at most this many records draw from every record shape
MaxRichRecords == 2
\* in larger collections, the first keys that may hold a record without timestamp
MaxVariedKeys == 3

----------------------------------------------------------------------------
(* Program constants *)

\* limit_to_last(10)
LIMIT == 10

DatabaseURL == "https://cashflow-e8354-default-rtdb.europe-west1.firebasedatabase.app/"

CollectionPath == "transactions"

OrderByChild == "timestamp"

Header == "Last 10 transactions:"

NoTransactions == "No transactions found."

GuidanceLines ==
    << "Error initializing Firebase. Please make sure you have set the GOOGLE_APPLICATION_CREDENTIALS environment variable.",
       "For example: export GOOGLE_APPLICATION_CREDENTIALS='/Users/martinsauer/Workspace/cashflow/src/cashflow-e8354-firebase-adminsdk-fbsvc-af14d8ae4b.json'" >>

----------------------------------------------------------------------------
(* Python values *)

\* the value None
None == [type |-> "NoneType"]

\* the dict literal handed to initialize_app
OptionsDict == [type |-> "dict", value |-> [databaseURL |-> DatabaseURL]]

\* a name the script has not assigned yet
Unassigned == [type |-> "unassigned"]

\* isinstance(v, credentials.Base) or a google.auth credential
IsCredential(v) == v.type \in {"Certificate", "ApplicationDefault", "RefreshToken", "GoogleAuthCredentials"}

\* the app before initialize_app has registered one
NoApp == [type |-> "NoApp"]

\* firebase_admin.initialize_app(credential=None, options=None): the first
\* positional parameter is the credential; None selects the application
\* default credential, and anything that is not a credential instance is
\* refused with ValueError.
initialize_app(credential, options) ==
    LET cred == IF credential.type = "NoneType"
                THEN [type |-> "ApplicationDefault"]
                ELSE credential
    IN  IF IsCredential(cred)
        THEN [raised |-> "", app |-> [type |-> "App", credential |-> cred.type, options |-> options]]
        ELSE [raised |-> "ValueError", app |-> NoApp]

----------------------------------------------------------------------------
(* Transaction records: dicts holding any subset of the four fields *)

Fields == {"date", "description", "amount", "timestamp"}

Dates == {"2024-01-01"}

Descriptions == {"Coffee"}

Amounts == {3}

Timestamps == {0, 100, 200}

FullRecords == [date : Dates, description : Descriptions, amount : Amounts, timestamp : Timestamps]

Restrict(x, D) == [k \in D |-> x[k]]

\* every record shape: each field present or absent
RichRecords == { Restrict(x, D) : x \in FullRecords, D \in SUBSET Fields }

\* records with every display field, with or without a timestamp
VariedRecords == FullRecords \cup { Restrict(x, Fields \ {"timestamp"}) : x \in FullRecords }

\* complete records with one of two timestamps
TimedRecords == { x \in FullRecords : x.timestamp \in {100, 200} }

\* collections of n records, keys 1..n in key order: small ones take every
\* record shape; larger ones take varied records at the first keys and timed
\* records at the others
CollectionsOfSize(n) ==
    IF n <= MaxRichRecords
    THEN [1..n -> RichRecords]
    ELSE LET m == IF n < MaxVariedKeys THEN n ELSE MaxVariedKeys
         IN  { [k \in 1..n |-> IF k <= m THEN a[k] ELSE b[k]] :
                   a \in [1..m -> VariedRecords], b \in [(m + 1)..n -> TimedRecords] }

\* the contents the `transactions` node may have
Collections == UNION { CollectionsOfSize(n) : n \in 0..MaxRecords }

\* dict.get(key, default)
get_default(x, key, default) == IF key \in DOMAIN x THEN x[key] ELSE default

\* dict.get(key): the value, or None (the empty option)
get(x, key) == IF key \in DOMAIN x THEN <<x[key]>> ELSE <<>>

----------------------------------------------------------------------------
(* The query: order_by_child('timestamp').limit_to_last(10).get() *)

\* The database orders children by the named child value: children without
\* it (null) come first, then numbers ascending; equal values by key.
IndexRank(x) == IF OrderByChild \in DOMAIN x THEN 1 ELSE 0

IndexValue(x) == get_default(x, OrderByChild, 0)

EntryBefore(s, j, k) ==
    \/ IndexRank(s[j]) < IndexRank(s[k])
    \/ /\ IndexRank(s[j]) = IndexRank(s[k])
       /\ \/ IndexValue(s[j]) < IndexValue(s[k])
          \/ IndexValue(s[j]) = IndexValue(s[k]) /\ j < k

RECURSIVE OrderedKeys(_, _)
\* the keys K of collection s in index order, lowest first
OrderedKeys(s, K) ==
    IF K = {} THEN <<>>
    ELSE LET first == CHOOSE j \in K : \A k \in K \ {j} : EntryBefore(s, j, k)
         IN  <<first>> \o OrderedKeys(s, K \ {first})

\* variant: the first n entries are kept instead of the last
limit_to_first(seq, n) ==
    IF Len(seq) <= n THEN seq ELSE SubSeq(seq, 1, n)

\* limit_to_last(n): the last n entries of the ordered sequence
limit_to_last(seq, n) ==
    IF Len(seq) <= n THEN seq ELSE SubSeq(seq, Len(seq) - n + 1, Len(seq))

\* the value .get() returns: None for a node without data, else the ordered
\* mapping key -> record of the selected children
QueryResult(s) ==
    IF DOMAIN s = {} THEN None
    ELSE LET keys == limit_to_last(OrderedKeys(s, DOMAIN s), LIMIT)
         IN  [type |-> "dict",
              items |-> [i \in 1..Len(keys) |-> [key |-> keys[i], value |-> s[keys[i]]]]]

\* the request the query sends
QueryRequest == [path |-> CollectionPath, orderBy |-> OrderByChild, limitToLast |-> LIMIT]

----------------------------------------------------------------------------
(* The presenter *)

\* truth value of the query result: None and the empty dict are false
Truthy(v) == v.type = "dict" /\ Len(v.items) > 0

\* list(latest_transactions.values())
values(d) == [i \in 1..Len(d.items) |-> d.items[i].value]

\* variant: a record without timestamp sorts as the newest
sort_key_missing_newest(x) == get_default(x, "timestamp", 1000000)

\* key=lambda x: x.get('timestamp', 0)
sort_key(x) == get_default(x, "timestamp", 0)

\* variant: x goes in front of the elements with an equal key
InsertBeforeEqual(sorted, x) ==
    LET ahead == { i \in 1..Len(sorted) : sort_key(sorted[i]) > sort_key(x) }
        n == Cardinality(ahead)
    IN  SubSeq(sorted, 1, n) \o <<x>> \o SubSeq(sorted, n + 1, Len(sorted))

\* place x behind every element whose key is at least x's key
InsertDescending(sorted, x) ==
    LET ahead == { i \in 1..Len(sorted) : sort_key(sorted[i]) >= sort_key(x) }
        n == Cardinality(ahead)
    IN  SubSeq(sorted, 1, n) \o <<x>> \o SubSeq(sorted, n + 1, Len(sorted))

RECURSIVE SortFrom(_, _, _)
SortFrom(list, i, sorted) ==
    IF i > Len(list) THEN sorted
    ELSE SortFrom(list, i + 1, InsertDescending(sorted, list[i]))

\* variant: x goes behind the elements whose key is at most x's key
InsertAscending(sorted, x) ==
    LET ahead == { i \in 1..Len(sorted) : sort_key(sorted[i]) <= sort_key(x) }
        n == Cardinality(ahead)
    IN  SubSeq(sorted, 1, n) \o <<x>> \o SubSeq(sorted, n + 1, Len(sorted))

RECURSIVE SortAscendingFrom(_, _, _)
SortAscendingFrom(list, i, sorted) ==
    IF i > Len(list) THEN sorted
    ELSE SortAscendingFrom(list, i + 1, InsertAscending(sorted, list[i]))

\* variant: the sort without reverse=True
sort_ascending(list) == SortAscendingFrom(list, 1, <<>>)

\* list.sort(key=sort_key, reverse=True): descending by key, and stable
\* (records with equal keys keep their order in the list)
sort_reverse(list) == SortFrom(list, 1, <<>>)

\* str() of a string field inside the f-string
FormatText(o) == IF o = <<>> THEN "None" ELSE o[1]

\* variant: a missing numeric field leaves its slot empty
FormatNumberEmpty(o) == IF o = <<>> THEN "" ELSE ToString(o[1])

\* str() of a numeric field inside the f-string
FormatNumber(o) == IF o = <<>> THEN "None" ELSE ToString(o[1])

\* f"- {date}: {description} ({amount} EUR)"
FormatLine(x) ==
    "- " \o FormatText(get(x, "date")) \o ": " \o FormatText(get(x, "description"))
         \o " (" \o FormatNumber(get(x, "amount")) \o " EUR)"

\* variant: the loop stops one record early
RecordLinesSkipLast(list) == [i \in 1..(Len(list) - 1) |-> FormatLine(list[i])]

\* the lines the for loop prints
RecordLines(list) == [i \in 1..Len(list) |-> FormatLine(list[i])]

----------------------------------------------------------------------------
(* The script *)

Envs == {"unset", "invalid", "valid"}

\* the process starts: nothing printed, nothing requested
Init ==
    /\ pc = "start"
    /\ env \in Envs
    /\ store \in Collections
    /\ app = NoApp
    /\ requests = <<>>
    /\ latest_transactions = Unassigned
    /\ transaction_list = Unassigned
    /\ output = <<>>

\* variant: the handler prints the guidance and does not exit
InitializeAppNoExit ==
    /\ pc = "start"
    /\ LET r == initialize_app(OptionsDict, None)
       IN  IF r.raised = "ValueError"
           THEN /\ output' = output \o GuidanceLines
                /\ pc' = "query"
                /\ app' = app
           ELSE /\ app' = r.app
                /\ pc' = "query"
                /\ output' = output
    /\ UNCHANGED <<env, store, requests, latest_transactions, transaction_list>>

\* lines 13-21: try initialize_app({...}); except ValueError: print, print, exit()
InitializeApp ==
    /\ pc = "start"
    /\ LET r == initialize_app(OptionsDict, None)
       IN  IF r.raised = "ValueError"
           THEN /\ output' = output \o GuidanceLines
                /\ pc' = "exited"
                /\ app' = app
           ELSE /\ app' = r.app
                /\ pc' = "query"
                /\ output' = output
    /\ UNCHANGED <<env, store, requests, latest_transactions, transaction_list>>

\* variant: the query removes the children it returns
QueryConsuming ==
    /\ pc = "query"
    /\ requests' = Append(requests, QueryRequest)
    /\ LET r == QueryResult(store)
           returned == IF r.type = "dict"
                       THEN { r.items[i].key : i \in 1..Len(r.items) }
                       ELSE {}
       IN  /\ latest_transactions' = r
           /\ store' = [k \in DOMAIN store \ returned |-> store[k]]
    /\ pc' = "present"
    /\ UNCHANGED <<env, app, transaction_list, output>>

\* lines 25-30: the one blocking query; a transport or service failure
\* propagates uncaught and ends the process
Query ==
    /\ pc = "query"
    /\ requests' = Append(requests, QueryRequest)
    /\ \E outcome \in {"ok", "error"} :
          IF outcome = "ok"
          THEN /\ latest_transactions' = QueryResult(store)
               /\ pc' = "present"
          ELSE /\ latest_transactions' = latest_transactions
               /\ pc' = "crashed"
    /\ UNCHANGED <<env, store, app, transaction_list, output>>

\* variant: the header is printed before the result is tested
PresentHeaderFirst ==
    /\ pc = "present"
    /\ IF Truthy(latest_transactions)
       THEN LET sorted == sort_reverse(values(latest_transactions))
            IN  /\ transaction_list' = sorted
                /\ output' = output \o <<Header>> \o RecordLines(sorted)
       ELSE /\ transaction_list' = transaction_list
            /\ output' = output \o <<Header, NoTransactions>>
    /\ pc' = "done"
    /\ UNCHANGED <<env, store, app, requests, latest_transactions>>

\* lines 32-43: the presenter
Present ==
    /\ pc = "present"
    /\ IF Truthy(latest_transactions)
       THEN LET sorted == sort_reverse(values(latest_transactions))
            IN  /\ transaction_list' = sorted
                /\ output' = output \o <<Header>> \o RecordLines(sorted)
       ELSE /\ transaction_list' = transaction_list
            /\ output' = Append(output, NoTransactions)
    /\ pc' = "done"
    /\ UNCHANGED <<env, store, app, requests, latest_transactions>>

\* The script as written, from process start. Line 15 hands the options dict
\* to initialize_app in the credential position, which the library refuses
\* with ValueError for every environment: the handler is the only way on,
\* and lines 25-43 are not reached from here.
Next == InitializeApp

Spec == Init /\ [][Next]_vars

\* The query stage and the presenter, entered with an initialised client
\* bound to the database URL and valid ambient credentials.
StageInit ==
    /\ pc = "query"
    /\ env = "valid"
    /\ store \in Collections
    /\ app = [type |-> "App", credential |-> "ApplicationDefault", options |-> OptionsDict]
    /\ requests = <<>>
    /\ latest_transactions = Unassigned
    /\ transaction_list = Unassigned
    /\ output = <<>>

StageNext == Query \/ Present

StageSpec == StageInit /\ [][StageNext]_vars

\* every entry point and every step together
AllInit == Init \/ StageInit

AllNext == InitializeApp \/ Query \/ Present

AllSpec == AllInit /\ [][AllNext]_vars

----------------------------------------------------------------------------
(* Vocabulary of the properties *)

\* a record's timestamp, a missing one counted as 0
TimestampOrZero(x) == IF "timestamp" \in DOMAIN x THEN x.timestamp ELSE 0

\* the records of the query result, in the order the mapping yields them
ResultRecords == IF Truthy(latest_transactions) THEN values(latest_transactions) ELSE <<>>

\* the keys of the records the query returned
ResultKeys ==
    IF Truthy(latest_transactions)
    THEN { latest_transactions.items[i].key : i \in 1..Len(latest_transactions.items) }
    ELSE {}

\* the lines of the output that are neither the header nor a fixed message
RecordLinePositions ==
    { i \in 1..Len(output) :
        output[i] \notin {Header, NoTransactions, GuidanceLines[1], GuidanceLines[2]} }

\* how many lines of the output equal the given line
Occurrences(line) == Cardinality({ i \in 1..Len(output) : output[i] = line })

\* the line of a record with each missing field rendered as `missing`
LineWith(x, missing) ==
    "- " \o (IF "date" \in DOMAIN x THEN x.date ELSE missing)
         \o ": " \o (IF "description" \in DOMAIN x THEN x.description ELSE missing)
         \o " (" \o (IF "amount" \in DOMAIN x THEN ToString(x.amount) ELSE missing)
         \o " EUR)"

\* the presenter has run on a non-empty result
Presented == pc = "done" /\ Truthy(latest_transactions)

----------------------------------------------------------------------------
(* Properties *)

\* C1: once the presenter has run, a non-empty result of |R| records has
\* produced exactly |R| record lines, each record's line as often as the
\* result holds records with that line; an empty result has produced the
\* `No transactions found.` line once and no record line.
C1_OneLinePerRecord ==
    pc = "done" =>
        IF Truthy(latest_transactions)
        THEN LET lines == RecordLines(ResultRecords)
             IN  /\ Len(lines) <= LIMIT
                 /\ Cardinality(RecordLinePositions) = Len(lines)
                 /\ \A i \in 1..Len(lines) :
                        Occurrences(lines[i]) =
                            Cardinality({ j \in 1..Len(lines) : lines[j] = lines[i] })
        ELSE /\ RecordLinePositions = {}
             /\ Occurrences(NoTransactions) = 1

\* a full result of ten records has been printed as ten record lines
C1_Witness ==
    /\ Presented
    /\ Len(ResultRecords) = LIMIT
    /\ Cardinality(RecordLinePositions) = LIMIT

\* C2: the record lines are the lines of the sorted list in its order, the
\* list holds every record of the result, and of any two printed records the
\* one printed first has a timestamp at least that of the other, a missing
\* timestamp counted as 0.
C2_PrintedNewestFirst ==
    Presented =>
        /\ Len(transaction_list) = Len(ResultRecords)
        /\ Len(output) = 1 + Len(transaction_list)
        /\ \A i \in 1..Len(transaction_list) : output[i + 1] = FormatLine(transaction_list[i])
        /\ \A i, j \in 1..Len(transaction_list) :
               i < j => TimestampOrZero(transaction_list[i]) >= TimestampOrZero(transaction_list[j])

\* a record without timestamp was printed, behind a record with a positive one
C2_Witness ==
    /\ Presented
    /\ \E i, j \in 1..Len(transaction_list) :
           /\ i < j
           /\ "timestamp" \notin DOMAIN transaction_list[j]
           /\ TimestampOrZero(transaction_list[i]) > 0

\* C3: when initialisation has failed (no app was registered), the script
\* has exited having printed exactly the two guidance lines, without
\* sending a query and without printing the header or the empty message.
C3_InitFailureExits ==
    (pc # "start" /\ app = NoApp) =>
        /\ pc = "exited"
        /\ Len(output) = 2
        /\ output = GuidanceLines
        /\ requests = <<>>
        /\ latest_transactions = Unassigned
        /\ Occurrences(Header) = 0
        /\ Occurrences(NoTransactions) = 0

\* the variable is unset and the script has exited with the guidance
C3_Witness == pc = "exited" /\ env = "unset" /\ Len(output) = 2 /\ requests = <<>>

\* C4: after the presenter, an empty or absent result has produced exactly
\* the one line `No transactions found.`; the header occurs in the output
\* if and only if the result is non-empty, and then once, as the first line.
C4_EmptyResultOneLine ==
    pc = "done" =>
        /\ ~Truthy(latest_transactions) => output = <<NoTransactions>>
        /\ Truthy(latest_transactions) <=> Occurrences(Header) > 0
        /\ Truthy(latest_transactions) =>
               /\ Occurrences(Header) = 1
               /\ output[1] = Header
               /\ Occurrences(NoTransactions) = 0

\* the node held no data and the single line was printed
C4_Witness ==
    /\ pc = "done"
    /\ latest_transactions = None
    /\ output = <<NoTransactions>>

\* C5 as stated: every record is printed as one line in which each missing
\* field leaves its slot empty, so a record without amount prints as
\* `- 2024-01-01: Coffee ( EUR)`.
C5_MissingFieldRendersEmpty ==
    Presented =>
        /\ Len(output) = 1 + Len(transaction_list)
        /\ \A i \in 1..Len(transaction_list) :
               output[i + 1] = LineWith(transaction_list[i], "")

\* C5, amended: every record is printed as one line and the run reaches its
\* end; each missing field is rendered as the text None, so a record without
\* amount prints as `- 2024-01-01: Coffee (None EUR)`.
C5_MissingFieldRendersNone ==
    Presented =>
        /\ Len(output) = 1 + Len(transaction_list)
        /\ Len(transaction_list) = Len(ResultRecords)
        /\ \A i \in 1..Len(transaction_list) :
               output[i + 1] = LineWith(transaction_list[i], "None")

\* a record with date and description and no amount has been printed
C5_Witness ==
    /\ Presented
    /\ \E i \in 1..Len(transaction_list) :
           /\ DOMAIN transaction_list[i] \cap {"date", "description", "amount"} = {"date", "description"}
           /\ output[i + 1] = "- 2024-01-01: Coffee (None EUR)"

\* C6: after the presenter, the number of records displayed is the smaller
\* of 10 and the size of the collection, the records displayed are children
\* of the collection, and no child left out has a timestamp (missing counted
\* as 0) greater than that of a displayed child.
C6_HighestTimestampsDisplayed ==
    pc = "done" =>
        /\ Cardinality(RecordLinePositions) =
               (IF Cardinality(DOMAIN store) < LIMIT THEN Cardinality(DOMAIN store) ELSE LIMIT)
        /\ Cardinality(RecordLinePositions) = Cardinality(ResultKeys)
        /\ ResultKeys \subseteq DOMAIN store
        /\ \A i \in 1..Len(ResultRecords) :
               ResultRecords[i] = store[latest_transactions.items[i].key]
        /\ \A u \in DOMAIN store \ ResultKeys : \A d \in ResultKeys :
               TimestampOrZero(store[u]) <= TimestampOrZero(store[d])

\* more than ten children, ten displayed, and the child left out is older
C6_Witness ==
    /\ Presented
    /\ Cardinality(DOMAIN store) > LIMIT
    /\ Cardinality(RecordLinePositions) = LIMIT
    /\ \E u \in DOMAIN store \ ResultKeys : \E d \in ResultKeys :
           TimestampOrZero(store[u]) < TimestampOrZero(store[d])

\* C7 as stated: of two records printed one directly after the other, the
\* first has the strictly greater timestamp.
C7_StrictlyDescending ==
    Presented =>
        \A i \in 1..(Len(transaction_list) - 1) :
            TimestampOrZero(transaction_list[i]) > TimestampOrZero(transaction_list[i + 1])

\* the timestamps of the result (missing counted as 0) are pairwise different
DistinctTimestamps ==
    \A i, j \in 1..Len(ResultRecords) :
        i # j => TimestampOrZero(ResultRecords[i]) # TimestampOrZero(ResultRecords[j])

\* C7, amended: of two records printed one directly after the other, the
\* first has a timestamp greater than or equal to the second's; the order is
\* strictly descending when the timestamps of the result are pairwise
\* different.
C7_DescendingWithTies ==
    Presented =>
        /\ \A i \in 1..(Len(transaction_list) - 1) :
               TimestampOrZero(transaction_list[i]) >= TimestampOrZero(transaction_list[i + 1])
        /\ DistinctTimestamps =>
               \A i \in 1..(Len(transaction_list) - 1) :
                   TimestampOrZero(transaction_list[i]) > TimestampOrZero(transaction_list[i + 1])

\* two records with equal timestamps were printed next to each other, behind
\* a newer one
C7_Witness ==
    /\ Presented
    /\ Len(transaction_list) >= 3
    /\ \E i \in 1..(Len(transaction_list) - 2) :
           /\ TimestampOrZero(transaction_list[i]) > TimestampOrZero(transaction_list[i + 1])
           /\ TimestampOrZero(transaction_list[i + 1]) = TimestampOrZero(transaction_list[i + 2])

\* C8: no step changes the contents of the `transactions` node, and the
\* presenter leaves the query result as it was returned.
C8_StoreReadOnly ==
    [][ /\ store' = store
        /\ pc = "present" => latest_transactions' = latest_transactions ]_vars

\* the presenter has printed the records of a non-empty collection
C8_Witness == Presented /\ DOMAIN store # {} /\ Len(output) > 1

\* C9 as stated: with valid ambient credentials the guidance branch is not
\* taken, the client is bound to the database URL, and the query is sent
\* exactly once before any result output.
C9_ValidCredentialsReachQuery ==
    (env = "valid" /\ pc # "start") =>
        /\ pc # "exited"
        /\ output # GuidanceLines
        /\ app # NoApp
        /\ app.options = OptionsDict
        /\ (pc \in {"present", "done"} => Len(requests) = 1)

\* position in the printed order of the m-th of the timestamps ts: behind
\* the greater ones and the earlier equal ones
StableRank(ts, m) ==
    1 + Cardinality({ q \in 1..Len(ts) : ts[q] > ts[m] })
      + Cardinality({ q \in 1..(m - 1) : ts[q] = ts[m] })

\* the timestamps of the result in mapping order, missing counted as 0
ResultTimestamps == [i \in 1..Len(ResultRecords) |-> TimestampOrZero(ResultRecords[i])]

\* C10: records with equal timestamps are printed in the order in which the
\* result mapping yields them, so the output is the one sequence the result
\* determines: the m-th record of the mapping is printed at its stable rank.
C10_TiesKeepMappingOrder ==
    Presented =>
        LET R == ResultRecords
            ts == ResultTimestamps
        IN  /\ Len(output) = 1 + Len(R)
            /\ \A m \in 1..Len(R) :
                   LET r == StableRank(ts, m)
                   IN  /\ transaction_list[r] = R[m]
                       /\ output[1 + r] = FormatLine(R[m])

\* two different records with equal timestamps were printed in mapping order
C10_Witness ==
    /\ Presented
    /\ LET R == ResultRecords
           ts == ResultTimestamps
       IN  \E m, q \in 1..Len(R) :
               /\ m < q
               /\ ts[m] = ts[q]
               /\ FormatLine(R[m]) # FormatLine(R[q])
               /\ StableRank(ts, m) < StableRank(ts, q)
               /\ output[1 + StableRank(ts, m)] = FormatLine(R[m])
               /\ output[1 + StableRank(ts, q)] = FormatLine(R[q])

====
